---- MODULE Spec2Model ----
(***************************************************************************)
(* Model of the synchronisation engine of FinTrack.io (src/database.js):   *)
(* class SyncEngine and class ConflictResolver.                            *)
(*                                                                         *)
(* A transaction is a JavaScript object, modelled as a function from field *)
(* names to values; the object spread {...t, k: v} is Spread.  Timestamps  *)
(* (createdAt, date) are ISO strings in the code, compared through         *)
(* new Date(..); the model keeps them as naturals in the same order.       *)
(*                                                                         *)
(* Twelve specifications:                                                  *)
(*   SpecMerge      the pure functions syncTransactions and                *)
(*                  ConflictResolver.resolve applied to bounded inputs;    *)
(*   Spec           SyncEngine instances (one per device) that share the   *)
(*                  FinanceCloudSync blob (the remote replica) and each    *)
(*                  own a transactions_<username> list (the device-local   *)
(*                  replica), every storage write accepted;                *)
(*   SpecUsers      Spec with two registered users;                        *)
(*   SpecAuth       Spec, and the calls an engine rejects: a failed login, *)
(*                  a call made before login;                              *)
(*   SpecFaults     Spec, and a storage that can refuse a write of a cycle *)
(*                  and lose or garble the FinanceCloudSync payload;       *)
(*   SpecLive       Spec without the content of the sync log, under fair   *)
(*                  timers and fair continuations;                         *)
(*   SpecIntegrity  FinanceDatabase.verifyDataIntegrity applied to bounded *)
(*                  FinanceTrackerDB snapshots;                            *)
(*   SpecLog        logSyncEvent called again and again on the shared blob;*)
(*   SpecStore      the FinanceDatabase constructor, createUser,           *)
(*                  createTransaction and deleteTransaction, on an empty   *)
(*                  storage and on a stored snapshot with its indexes;     *)
(*   SpecOffline    Spec, and pages that go offline and online;            *)
(*   SpecQuery      Spec, and pages that call getTransactions;             *)
(*   SpecFaultsFair SpecFaults with every suspended performSync resumed.   *)
(***************************************************************************)
EXTENDS Integers, Sequences, FiniteSets, TLC

VARIABLES
    \* ---- SpecMerge: inputs and results of the pure functions
    localIn,            \* the localTransactions argument
    cloudIn,            \* the cloudTransactions argument
    merged,             \* syncTransactions(localIn, cloudIn), once computed
    out,                \* the result of the operation named by op
    op,                 \* "init" | "merged" | "remerged" | "swapped" | "resolved"
    \* ---- Spec: the engines and the stores
    cloud,              \* the FinanceCloudSync blob: [transactions, syncLog]
    localStore,         \* localStore[d][u]: device d's transactions_<u> list
    username,           \* this.username of device d's engine (Null before login)
    syncInProgress,     \* this.syncInProgress
    pendingOperations,  \* this.pendingOperations
    status,             \* what updateSyncStatus last displayed
    lastSyncTimestamp,  \* this.lastSyncTimestamp
    frames,             \* frames[d]: performSync calls suspended at their await
    clock,              \* Date.now(), advanced by every addTransaction
    dropped,            \* dropped[d]: a performSync call returned at the guard
                        \* since d's cycle in flight began
    deleting,           \* deleting[d]: ids whose deleteTransaction started the
                        \* cycle in flight and awaits it
    deleteDone,         \* deleteDone[d]: ids whose deleteTransaction ran its own
                        \* cycle and has returned
    lastCycle,          \* lastCycle[d]: what d's last performSync call that
                        \* passed the guard did, once it has ended
    faults,             \* storage faults so far (SpecFaults)
    logKept,            \* whether the entries of syncLog are kept in the model
    mutations,          \* addTransaction and deleteTransaction calls so far
    online,             \* online[d]: navigator.onLine of device d's page
    served,             \* the last getTransactions call: by which device, and
                        \* what its syncInProgress was
    authError,          \* the last call an engine rejected: on which device,
                        \* and the error it threw
    \* ---- SpecLog: the calls of logSyncEvent
    logBefore,          \* syncLog before the last logSyncEvent call
    logCalls,           \* how many times logSyncEvent has been called
    \* ---- SpecIntegrity: the FinanceTrackerDB snapshot
    db,                 \* the persisted snapshot: [metadata, tables]
    dbBefore,           \* the snapshot before the last verifyDataIntegrity
    errors,             \* the violations the last verifyDataIntegrity reported
    verifyRuns,         \* how many times verifyDataIntegrity has run
    minted,             \* the ids getNextId('transactions') has returned
    isConnected,        \* this.isConnected of the FinanceDatabase instance
    lastCall            \* the last FinanceDatabase call: its name, its error

mergeVars == <<localIn, cloudIn, merged, out, op>>
sysVars == <<cloud, localStore, username, syncInProgress, pendingOperations,
             status, lastSyncTimestamp, frames, clock, dropped, deleting,
             deleteDone, lastCycle, faults, logKept, mutations, online, served,
             authError>>
dbVars == <<db, dbBefore, errors, verifyRuns, minted, isConnected, lastCall>>
logVars == <<logBefore, logCalls>>
vars == <<localIn, cloudIn, merged, out, op, cloud, localStore, username,
          syncInProgress, pendingOperations, status, lastSyncTimestamp, frames,
          clock, dropped, deleting, deleteDone, lastCycle, faults, logKept,
          mutations, online, served, authError, logBefore, logCalls, db,
          dbBefore, errors, verifyRuns, minted, isConnected, lastCall>>

----------------------------------------------------------------------------
(* Bounds of the model *)

NumIds == 2
MaxTime == 2
MaxDate == 2
MaxLen == 2

Ids == 1..NumIds
Times == 1..MaxTime
Dates == 1..MaxDate

----------------------------------------------------------------------------
(* JavaScript objects *)

\* {...base, ...over}: the fields of base, those of over added or replacing.
Spread(base, over) ==
    [k \in DOMAIN base \cup DOMAIN over |->
        IF k \in DOMAIN over THEN over[k] ELSE base[k]]

\* The fields of a record other than the given ones.
Without(r, keys) == [k \in DOMAIN r \ keys |-> r[k]]

RECURSIVE SeqIds(_)
SeqIds(s) == IF s = <<>> THEN {} ELSE {Head(s).id} \cup SeqIds(Tail(s))

\* list.filter(t => t.id !== transactionId)
RECURSIVE FilterOutId(_, _)
FilterOutId(s, transactionId) ==
    IF s = <<>> THEN <<>>
    ELSE IF Head(s).id # transactionId
         THEN <<Head(s)>> \o FilterOutId(Tail(s), transactionId)
         ELSE FilterOutId(Tail(s), transactionId)

----------------------------------------------------------------------------
(* class ConflictResolver *)

\* A resolver that lets the cloud version win whatever the timestamps.
ResolveCloudAlways(localTransaction, cloudTransaction) ==
    Spread(cloudTransaction,
           [syncStatus |-> "synced",
            conflictResolution |-> "cloud_wins",
            originalLocalVersion |-> localTransaction])

\* ConflictResolver.resolve
resolve(localTransaction, cloudTransaction) ==
    IF localTransaction.createdAt > cloudTransaction.createdAt
    THEN Spread(localTransaction,
                [syncStatus |-> "conflict_resolved",
                 conflictResolution |-> "local_wins",
                 originalCloudVersion |-> cloudTransaction])
    ELSE Spread(cloudTransaction,
                [syncStatus |-> "synced",
                 conflictResolution |-> "cloud_wins",
                 originalLocalVersion |-> localTransaction])

----------------------------------------------------------------------------
(* SyncEngine.syncTransactions *)

\* A first loop that leaves the status of the cloud copy as it is.
CloudPartKeepStatus(cloudTransactions) ==
    [i \in 1..Len(cloudTransactions) |->
        Spread(cloudTransactions[i], [source |-> "cloud"])]

\* cloudTransactions.forEach: every cloud record, tagged synced / cloud.
CloudPart(cloudTransactions) ==
    [i \in 1..Len(cloudTransactions) |->
        Spread(cloudTransactions[i], [syncStatus |-> "synced", source |-> "cloud"])]

\* cloudTransactions.find(t => t.id === id): the index of the first match, 0 if none.
FindIndex(cloudTransactions, id) ==
    IF \E i \in 1..Len(cloudTransactions) : cloudTransactions[i].id = id
    THEN CHOOSE i \in 1..Len(cloudTransactions) :
            /\ cloudTransactions[i].id = id
            /\ \A j \in 1..(i - 1) : cloudTransactions[j].id # id
    ELSE 0

\* localTransactions.forEach: what each local record pushes onto merged.
RECURSIVE LocalPart(_, _, _)
LocalPart(localTransactions, cloudTransactions, seenIds) ==
    IF localTransactions = <<>> THEN <<>>
    ELSE LET transaction == Head(localTransactions)
             rest == LocalPart(Tail(localTransactions), cloudTransactions, seenIds)
             cloudVersion == FindIndex(cloudTransactions, transaction.id)
         IN  IF transaction.id \in seenIds THEN rest
             ELSE IF cloudVersion = 0
                  THEN <<Spread(transaction,
                                [syncStatus |-> "pending", source |-> "local"])>> \o rest
                  ELSE <<resolve(transaction, cloudTransactions[cloudVersion])>> \o rest

\* merged.sort((a, b) => new Date(b.date) - new Date(a.date)): a stable sort,
\* date descending.  Insert puts t after every record whose date is >= t's.
RECURSIVE Insert(_, _)
Insert(sorted, t) ==
    IF sorted = <<>> THEN <<t>>
    ELSE IF Head(sorted).date >= t.date
         THEN <<Head(sorted)>> \o Insert(Tail(sorted), t)
         ELSE <<t>> \o sorted

\* A sort that leaves the list in the order of the two loops.
SortNothing(s) == s

RECURSIVE SortByDateDesc(_)
SortByDateDesc(s) ==
    IF s = <<>> THEN <<>>
    ELSE Insert(SortByDateDesc(SubSeq(s, 1, Len(s) - 1)), s[Len(s)])

\* A merge that keeps the cloud records only.
SyncCloudOnly(localTransactions, cloudTransactions) ==
    SortByDateDesc(CloudPart(cloudTransactions))

\* A merge that never records the ids it has seen.
SyncNoSeen(localTransactions, cloudTransactions) ==
    SortByDateDesc(CloudPart(cloudTransactions)
                   \o LocalPart(localTransactions, <<>>, {}))

syncTransactions(localTransactions, cloudTransactions) ==
    SortByDateDesc(CloudPart(cloudTransactions)
                   \o LocalPart(localTransactions, cloudTransactions,
                                SeqIds(cloudTransactions)))

----------------------------------------------------------------------------
(* SpecMerge: the pure functions on bounded inputs *)

\* The records an engine can hold before a merge tags them: what
\* addTransaction builds, with the status a stored copy can carry.
BaseTxn ==
    [id : Ids, createdAt : Times, date : Dates, deleted : BOOLEAN,
     syncStatus : {"pending", "synced"}]

\* Lists of at most MaxLen records.
TxnLists == UNION {[1..n -> BaseTxn] : n \in 0..MaxLen}

NoResult == <<>>

\* The engines' variables, at rest while the pure functions are exercised.
SysIdle ==
    /\ cloud = <<>>
    /\ localStore = <<>>
    /\ username = <<>>
    /\ syncInProgress = <<>>
    /\ pendingOperations = <<>>
    /\ status = <<>>
    /\ lastSyncTimestamp = <<>>
    /\ frames = <<>>
    /\ clock = 0
    /\ dropped = <<>>
    /\ deleting = <<>>
    /\ deleteDone = <<>>
    /\ lastCycle = <<>>
    /\ faults = 0
    /\ logKept = TRUE
    /\ mutations = 0
    /\ online = <<>>
    /\ served = <<>>
    /\ authError = <<>>

\* The variables of SpecLog, at rest in the other specifications.
LogIdle ==
    /\ logBefore = <<>>
    /\ logCalls = 0

\* The FinanceTrackerDB variables, at rest in the other specifications.
DbIdle ==
    /\ db = <<>>
    /\ dbBefore = <<>>
    /\ errors = <<>>
    /\ verifyRuns = 0
    /\ minted = <<>>
    /\ isConnected = FALSE
    /\ lastCall = <<>>

InitMerge ==
    /\ localIn \in TxnLists
    /\ cloudIn \in TxnLists
    /\ merged = NoResult
    /\ out = NoResult
    /\ op = "init"
    /\ SysIdle
    /\ DbIdle
    /\ LogIdle

\* merged = syncTransactions(localIn, cloudIn)
Merge ==
    /\ op = "init"
    /\ merged' = syncTransactions(localIn, cloudIn)
    /\ op' = "merged"
    /\ UNCHANGED <<localIn, cloudIn, out>>

\* The merge run again on its own output: syncTransactions(M, M)
Remerge ==
    /\ op = "merged"
    /\ out' = syncTransactions(merged, merged)
    /\ op' = "remerged"
    /\ UNCHANGED <<localIn, cloudIn, merged>>

\* The merge with its arguments exchanged: syncTransactions(cloudIn, localIn)
MergeSwapped ==
    /\ op = "merged"
    /\ out' = syncTransactions(cloudIn, localIn)
    /\ op' = "swapped"
    /\ UNCHANGED <<localIn, cloudIn, merged>>

\* conflictResolver.resolve on the first record of each list
Resolve ==
    /\ op = "init"
    /\ localIn # <<>>
    /\ cloudIn # <<>>
    /\ out' = <<resolve(localIn[1], cloudIn[1])>>
    /\ op' = "resolved"
    /\ UNCHANGED <<localIn, cloudIn, merged>>

NextMerge ==
    \/ Merge /\ UNCHANGED <<sysVars, dbVars, logVars>>
    \/ Remerge /\ UNCHANGED <<sysVars, dbVars, logVars>>
    \/ MergeSwapped /\ UNCHANGED <<sysVars, dbVars, logVars>>
    \/ Resolve /\ UNCHANGED <<sysVars, dbVars, logVars>>

SpecMerge == InitMerge /\ [][NextMerge]_vars

----------------------------------------------------------------------------
(* Spec: SyncEngine instances sharing the cloud blob *)

Devices == {"d1", "d2"}
Users == {"alice"}
Null == "null"

\* The sync log never holds more than MaxLog entries in the model: a cycle
\* starts only while the entries logged, the cycles in flight and the storage
\* faults are fewer.
MaxLog == 3

\* The storage faults of one behaviour of SpecFaults.
MaxFaults == 1

\* The addTransaction and deleteTransaction calls of one behaviour.
MaxMutations == 2

LogCeiling == 1000
LogKeep == 500

\* The pure functions' variables, at rest while the engines run.
MergeIdle ==
    /\ localIn = <<>>
    /\ cloudIn = <<>>
    /\ merged = NoResult
    /\ out = NoResult
    /\ op = "idle"

\* JSON.parse('{}'): the object getCloudData and getDatabase parse when the
\* key holds no payload.
EmptyObject == [k \in {} |-> TRUE]

\* A FinanceCloudSync payload that JSON.parse rejects.
Corrupt == [unparsable |-> TRUE]

\* The object getCloudData returns from its catch.
DefaultCloud ==
    [users |-> EmptyObject, transactions |-> EmptyObject,
     devices |-> EmptyObject, syncLog |-> <<>>, locks |-> EmptyObject]

\* SyncEngine.getCloudData on the payload of the FinanceCloudSync key: the
\* parsed object, {} for no payload, the default for an unparsable one.
getCloudData(payload) ==
    IF "unparsable" \in DOMAIN payload THEN DefaultCloud ELSE payload

\* obj[key] || []
OrEmpty(obj, key) == IF key \in DOMAIN obj THEN obj[key] ELSE <<>>

\* obj[key] = value
Put(obj, key, value) == Spread(obj, key :> value)

\* A test that never sees a local change.
HasLocalChangesNever(localTransactions, cloudTransactions) == FALSE

\* SyncEngine.hasLocalChanges
hasLocalChanges(localTransactions, cloudTransactions) ==
    \/ Len(localTransactions) # Len(cloudTransactions)
    \/ \E i \in 1..Len(localTransactions) :
          localTransactions[i].syncStatus = "pending"

\* A trim that keeps the head of the list.
LogSyncEventKeepOldest(cloudData, event, user, deviceId, details) ==
    LET pushed == Append(cloudData.syncLog,
                         [event |-> event, username |-> user,
                          deviceId |-> deviceId, details |-> details])
        kept == IF Len(pushed) > LogCeiling
                THEN SubSeq(pushed, 1, LogKeep)
                ELSE pushed
    IN  [cloudData EXCEPT !.syncLog = kept]

\* SyncEngine.logSyncEvent on the blob read: push, trim, and the blob to save.
\* (The entry's timestamp is left out; SpecLive keeps no entry.)
logSyncEvent(cloudData, event, user, deviceId, details) ==
    LET pushed == IF logKept
                  THEN Append(cloudData.syncLog,
                              [event |-> event, username |-> user,
                               deviceId |-> deviceId, details |-> details])
                  ELSE cloudData.syncLog
        kept == IF Len(pushed) > LogCeiling
                THEN SubSeq(pushed, Len(pushed) - LogKeep + 1, Len(pushed))
                ELSE pushed
    IN  [cloudData EXCEPT !.syncLog = kept]

\* logSyncEvent returns normally: cloudData.syncLog.push has a list to push to.
CanLog(payload) == "syncLog" \in DOMAIN getCloudData(payload)

\* A guard that forgets the user.
SyncGuardNoUser(d) == ~syncInProgress[d]

\* A guard that forgets the in-progress flag.
SyncGuardNoLock(d) == username[d] # Null

\* performSync's entry test: if (!this.username || this.syncInProgress) return;
SyncGuard(d) == username[d] # Null /\ ~syncInProgress[d]

\* The listeners' own test before they call performSync.
ListenerGuard(d) == username[d] # Null /\ ~syncInProgress[d]

InFlight == Cardinality({d \in Devices : frames[d] # <<>>})
LogLen == IF "syncLog" \in DOMAIN cloud THEN Len(cloud.syncLog) ELSE 0
HasBudget == logKept => LogLen + InFlight + faults < MaxLog

\* What a performSync call that passed the guard did, by its end: how it
\* ended (result), the updateSyncStatus calls (trail), the logSyncEvent calls
\* that returned (logged), the dataChanged events dispatched (notified),
\* whether its promise was rejected, whether the storage refused one of its
\* writes, whether it recorded lastSyncTimestamp (stamped).  NoCycle: no
\* such call of the device has ended yet.
NoCycle ==
    [result |-> "none", trail |-> <<>>, logged |-> <<>>, notified |-> 0,
     rejected |-> FALSE, refused |-> FALSE, stamped |-> FALSE]

\* A catch whose throwing logger skips the finally: the flag stays set.
CatchWithoutFinally(d, payload, trail, stamped, refused, cloudOk) ==
    LET canLog == CanLog(payload)
    IN  /\ cloud' = IF canLog /\ cloudOk
                    THEN logSyncEvent(getCloudData(payload), "sync_error",
                                      username[d], d, "message")
                    ELSE payload
        /\ status' = [status EXCEPT ![d] = "error"]
        /\ syncInProgress' = [syncInProgress EXCEPT ![d] = ~canLog]
        /\ lastCycle' = [lastCycle EXCEPT ![d] =
              [result |-> "error", trail |-> Append(trail, "error"),
               logged |-> IF canLog THEN <<"sync_error">> ELSE <<>>,
               notified |-> 0, rejected |-> ~canLog,
               refused |-> refused, stamped |-> stamped]]

\* performSync's catch and finally, entered with the payload as stored, after
\* the updateSyncStatus calls of trail: 'error' is displayed, then
\* logSyncEvent('sync_error') either appends its entry or throws in its turn,
\* and then the promise performSync returned is rejected; the flag is cleared.
CatchAndFinally(d, payload, trail, stamped, refused, cloudOk) ==
    LET canLog == CanLog(payload)
    IN  /\ cloud' = IF canLog /\ cloudOk
                    THEN logSyncEvent(getCloudData(payload), "sync_error",
                                      username[d], d, "message")
                    ELSE payload
        /\ status' = [status EXCEPT ![d] = "error"]
        /\ syncInProgress' = [syncInProgress EXCEPT ![d] = FALSE]
        /\ lastCycle' = [lastCycle EXCEPT ![d] =
              [result |-> "error", trail |-> Append(trail, "error"),
               logged |-> IF canLog THEN <<"sync_error">> ELSE <<>>,
               notified |-> 0, rejected |-> ~canLog,
               refused |-> refused, stamped |-> stamped]]

\* performSync from its entry to its await, called when the stores hold
\* cloudNow and localNow: the guard, the flag, the two reads and the merge
\* (syncTransactions runs to its end before the await suspends the caller).
\* cloudData.transactions[this.username] throws when the object read has no
\* transactions: the call then runs its catch and finally at once.
PerformSyncCall(d, cloudNow, localNow) ==
    IF SyncGuard(d)
    THEN LET u == username[d]
             cloudData == getCloudData(cloudNow)
         IN  IF "transactions" \in DOMAIN cloudData
             THEN LET cloudTransactions == OrEmpty(cloudData.transactions, u)
                      localTransactions == OrEmpty(localNow[d], u)
                  IN  /\ syncInProgress' = [syncInProgress EXCEPT ![d] = TRUE]
                      /\ status' = [status EXCEPT ![d] = "syncing"]
                      /\ frames' = [frames EXCEPT ![d] = Append(@,
                            [online |-> online[d],
                             cloudData |-> cloudData,
                             cloudTransactions |-> cloudTransactions,
                             localTransactions |-> localTransactions,
                             syncedTransactions |->
                                 syncTransactions(localTransactions,
                                                  cloudTransactions)])]
                      /\ cloud' = cloudNow
                      /\ UNCHANGED <<dropped, lastCycle>>
             ELSE /\ CatchAndFinally(d, cloudNow, <<"syncing">>, FALSE, FALSE,
                                     TRUE)
                  /\ UNCHANGED <<frames, dropped>>
    ELSE /\ dropped' = [dropped EXCEPT ![d] = @ \/ syncInProgress[d]]
         /\ cloud' = cloudNow
         /\ UNCHANGED <<syncInProgress, status, frames, lastCycle>>

\* A listener (timer, focus, visibilitychange): performSync if its test passes.
ListenerCall(d) ==
    IF ListenerGuard(d)
    THEN PerformSyncCall(d, cloud, localStore)
    ELSE /\ dropped' = [dropped EXCEPT ![d] = @ \/ syncInProgress[d]]
         /\ UNCHANGED <<cloud, syncInProgress, status, frames, lastCycle>>

RestUnchanged ==
    UNCHANGED <<localStore, username, pendingOperations, lastSyncTimestamp,
                clock, deleting, deleteDone, faults, logKept, mutations,
                   online, served, authError>>

\* No call has been rejected yet.
NoError == [device |-> Null, error |-> "none"]

\* No getTransactions call has been made yet.
NoQuery == [device |-> Null, syncInProgress |-> FALSE]

\* The engines after construction, the user registered (registerUser), every
\* storage key as the constructors left it.
InitSysFor(users) ==
    /\ cloud = [version |-> "3.0.0",
                users |-> [u \in users |-> [username |-> u]],
                transactions |-> [u \in users |-> <<>>],
                devices |-> [u \in users |-> <<>>],
                syncLog |-> <<>>,
                locks |-> EmptyObject]
    /\ localStore = [d \in Devices |-> [u \in users |-> <<>>]]
    /\ username = [d \in Devices |-> Null]
    /\ syncInProgress = [d \in Devices |-> FALSE]
    /\ pendingOperations = [d \in Devices |-> <<>>]
    /\ status = [d \in Devices |-> "idle"]
    /\ lastSyncTimestamp = [d \in Devices |-> 0]
    /\ frames = [d \in Devices |-> <<>>]
    /\ clock = 0
    /\ dropped = [d \in Devices |-> FALSE]
    /\ deleting = [d \in Devices |-> {}]
    /\ deleteDone = [d \in Devices |-> {}]
    /\ lastCycle = [d \in Devices |-> NoCycle]
    /\ faults = 0
    /\ mutations = 0
    /\ online = [d \in Devices |-> TRUE]
    /\ served = NoQuery
    /\ authError = NoError

InitSys == InitSysFor(Users)

Init ==
    /\ MergeIdle
    /\ DbIdle
    /\ LogIdle
    /\ InitSys
    /\ logKept = TRUE

\* authenticateUser with the right password, then registerDevice.  The call
\* throws, and changes nothing, when the object read has no such user.
AuthenticateUser(d, u) ==
    /\ username[d] = Null
    /\ LET cloudData == getCloudData(cloud)
       IN  /\ "users" \in DOMAIN cloudData
           /\ u \in DOMAIN cloudData.users
           /\ cloud' = [cloudData EXCEPT !.devices =
                  Put(@, u, Append(SelectSeq(OrEmpty(@, u),
                                             LAMBDA dev : dev # d), d))]
    /\ username' = [username EXCEPT ![d] = u]
    /\ UNCHANGED <<localStore, syncInProgress, pendingOperations, status,
                   lastSyncTimestamp, frames, clock, dropped, deleting,
                   deleteDone, lastCycle, faults, logKept, mutations,
                   online, served, authError>>

\* setInterval callback of setupPeriodicSync (the page visible)
TimerTick(d) ==
    /\ ListenerGuard(d) => HasBudget
    /\ ListenerCall(d)
    /\ RestUnchanged

\* 'focus' listener of setupStorageListeners
FocusEvent(d) ==
    /\ ListenerGuard(d) => HasBudget
    /\ ListenerCall(d)
    /\ RestUnchanged

\* 'visibilitychange' listener of setupStorageListeners (the page not hidden)
VisibilityChange(d) ==
    /\ ListenerGuard(d) => HasBudget
    /\ ListenerCall(d)
    /\ RestUnchanged

\* The setTimeout callback that handleStorageChange scheduled: it calls
\* performSync 100 ms after the storage event, whatever the engine does by then.
StorageChangeSync(d) ==
    /\ SyncGuard(d) => HasBudget
    /\ PerformSyncCall(d, cloud, localStore)
    /\ RestUnchanged

\* forceSync, up to performSync's await
ForceSync(d) ==
    /\ username[d] # Null
    /\ SyncGuard(d) => HasBudget
    /\ PerformSyncCall(d, cloud, localStore)
    /\ RestUnchanged

\* addTransaction, up to performSync's await.  generateTransactionId and
\* createdAt both come from Date.now(): the id minted is the new clock value.
AddTransaction(d, date) ==
    /\ username[d] # Null
    /\ clock < NumIds
    /\ mutations < MaxMutations
    /\ SyncGuard(d) => HasBudget
    /\ LET u == username[d]
           transaction == [id |-> clock + 1, date |-> date,
                           createdAt |-> clock + 1, deviceId |-> d,
                           syncStatus |-> "pending"]
           localNow == [localStore EXCEPT ![d][u] = Append(@, transaction)]
       IN  /\ localStore' = localNow
           /\ PerformSyncCall(d, cloud, localNow)
    /\ clock' = clock + 1
    /\ mutations' = mutations + 1
    /\ UNCHANGED <<username, pendingOperations, lastSyncTimestamp,
                   deleting, deleteDone, faults, logKept,
                   online, served, authError>>

\* deleteTransaction, up to performSync's await, for a record the device
\* lists.  cloudData.transactions[this.username] throws before any write when
\* the object read has no transactions: the call then changes nothing.
DeleteTransaction(d, transactionId) ==
    /\ username[d] # Null
    /\ transactionId \in SeqIds(localStore[d][username[d]])
    /\ mutations < MaxMutations
    /\ "transactions" \in DOMAIN getCloudData(cloud)
    /\ SyncGuard(d) => HasBudget
    /\ LET u == username[d]
           cloudData == getCloudData(cloud)
           cloudNow == IF u \in DOMAIN cloudData.transactions
                       THEN [cloudData EXCEPT !.transactions[u] =
                                FilterOutId(@, transactionId)]
                       ELSE cloud
           localNow == [localStore EXCEPT
                           ![d][u] = FilterOutId(@, transactionId)]
       IN  /\ localStore' = localNow
           /\ PerformSyncCall(d, cloudNow, localNow)
    /\ deleting' = IF SyncGuard(d)
                   THEN [deleting EXCEPT ![d] = @ \cup {transactionId}]
                   ELSE deleting
    /\ mutations' = mutations + 1
    /\ UNCHANGED <<username, pendingOperations, lastSyncTimestamp, clock,
                   deleteDone, faults, logKept,
                   online, served, authError>>

\* performSync from its await to its end, the storage accepting (localOk) or
\* refusing the write of transactions_<username>, and accepting (cloudOk) or
\* refusing the writes of FinanceCloudSync: the write-backs, the timestamp,
\* the status, the log entry, the notification, the flag; then the callers
\* awaiting it return.  saveLocalTransactions and saveCloudData catch a
\* refused write and return false, which performSync does not look at.
ResumeWith(d, localOk, cloudOk) ==
    /\ frames[d] # <<>>
    /\ LET f == Head(frames[d])
           u == username[d]
           changed == hasLocalChanges(f.localTransactions, f.cloudTransactions)
           afterSave ==
               IF changed /\ cloudOk
               THEN [f.cloudData EXCEPT
                        !.transactions = Put(@, u, f.syncedTransactions)]
               ELSE cloud
           refused == ~localOk \/ (~cloudOk /\ (changed \/ CanLog(afterSave)))
       IN  /\ localStore' = IF localOk
                            THEN [localStore EXCEPT
                                     ![d][u] = f.syncedTransactions]
                            ELSE localStore
           /\ IF CanLog(afterSave)
              THEN /\ cloud' = IF cloudOk
                               THEN logSyncEvent(getCloudData(afterSave),
                                                 "sync_completed", u, d, Null)
                               ELSE afterSave
                   /\ status' = [status EXCEPT ![d] = "synced"]
                   /\ syncInProgress' = [syncInProgress EXCEPT ![d] = FALSE]
                   /\ lastCycle' = [lastCycle EXCEPT ![d] =
                         [result |-> "synced",
                          trail |-> <<"syncing", "synced">>,
                          logged |-> <<"sync_completed">>,
                          notified |-> 1, rejected |-> FALSE,
                          refused |-> refused, stamped |-> TRUE]]
              ELSE CatchAndFinally(d, afterSave, <<"syncing", "synced">>,
                                   TRUE, refused, cloudOk)
    /\ lastSyncTimestamp' = [lastSyncTimestamp EXCEPT ![d] = clock + 1]
    /\ frames' = [frames EXCEPT ![d] = Tail(@)]
    /\ dropped' = [dropped EXCEPT ![d] = FALSE]
    /\ deleteDone' = [deleteDone EXCEPT ![d] = @ \cup deleting[d]]
    /\ deleting' = [deleting EXCEPT ![d] = {}]
    /\ UNCHANGED <<username, pendingOperations, clock, logKept, mutations,
                   online, served, authError>>

\* performSync from its await to its end, every write accepted.
PerformSyncResume(d) ==
    /\ ResumeWith(d, TRUE, TRUE)
    /\ UNCHANGED faults

Next ==
    \/ \E d \in Devices, u \in Users :
          AuthenticateUser(d, u) /\ UNCHANGED <<mergeVars, dbVars, logVars>>
    \/ \E d \in Devices : TimerTick(d) /\ UNCHANGED <<mergeVars, dbVars, logVars>>
    \/ \E d \in Devices : FocusEvent(d) /\ UNCHANGED <<mergeVars, dbVars, logVars>>
    \/ \E d \in Devices : VisibilityChange(d) /\ UNCHANGED <<mergeVars, dbVars, logVars>>
    \/ \E d \in Devices : StorageChangeSync(d) /\ UNCHANGED <<mergeVars, dbVars, logVars>>
    \/ \E d \in Devices : ForceSync(d) /\ UNCHANGED <<mergeVars, dbVars, logVars>>
    \/ \E d \in Devices, date \in Dates :
          AddTransaction(d, date) /\ UNCHANGED <<mergeVars, dbVars, logVars>>
    \/ \E d \in Devices : \E id \in 1..clock :
          DeleteTransaction(d, id) /\ UNCHANGED <<mergeVars, dbVars, logVars>>
    \/ \E d \in Devices : PerformSyncResume(d) /\ UNCHANGED <<mergeVars, dbVars, logVars>>

Spec == Init /\ [][Next]_vars

(***************************************************************************)
(* SpecUsers: Spec with two registered users sharing the blob              *)
(***************************************************************************)

TwoUsers == {"alice", "bob"}

InitUsers ==
    /\ MergeIdle
    /\ DbIdle
    /\ LogIdle
    /\ InitSysFor(TwoUsers)
    /\ logKept = TRUE

NextUsers ==
    \/ Next
    \/ \E d \in Devices, u \in TwoUsers \ Users :
          AuthenticateUser(d, u) /\ UNCHANGED <<mergeVars, dbVars, logVars>>

SpecUsers == InitUsers /\ [][NextUsers]_vars

(***************************************************************************)
(* SpecAuth: Spec, and the calls an engine rejects                         *)
(***************************************************************************)

\* The usernames a login is tried with: a registered and an unknown one.
LoginNames == {"alice", "mallory"}

Calls == {"addTransaction", "deleteTransaction", "forceSync"}

\* authenticateUser throwing: cloudData.users[username] on an object without
\* users, no such user, or a hash that differs; it throws before it writes
\* the blob and before it assigns this.username.
AuthenticateUserRejected(d, u, passwordOk) ==
    /\ LET cloudData == getCloudData(cloud)
           error == IF "users" \notin DOMAIN cloudData THEN "type_error"
                    ELSE IF u \notin DOMAIN cloudData.users
                         THEN "user_not_found"
                         ELSE IF ~passwordOk THEN "wrong_password"
                              ELSE "none"
       IN  /\ error # "none"
           /\ authError' = [device |-> d, error |-> error]
    /\ UNCHANGED <<cloud, localStore, username, syncInProgress,
                   pendingOperations, status, lastSyncTimestamp, frames, clock,
                   dropped, deleting, deleteDone, lastCycle, faults, logKept,
                   mutations, online, served>>

\* addTransaction, deleteTransaction or forceSync before a login: the first
\* statement throws.
UnauthenticatedCall(d, call) ==
    /\ username[d] = Null
    /\ authError' = [device |-> d, error |-> "not_authenticated"]
    /\ UNCHANGED <<cloud, localStore, username, syncInProgress,
                   pendingOperations, status, lastSyncTimestamp, frames, clock,
                   dropped, deleting, deleteDone, lastCycle, faults, logKept,
                   mutations, online, served>>

NextAuth ==
    \/ Next
    \/ \E d \in Devices, u \in LoginNames, passwordOk \in BOOLEAN :
          AuthenticateUserRejected(d, u, passwordOk)
          /\ UNCHANGED <<mergeVars, dbVars, logVars>>
    \/ \E d \in Devices, call \in Calls :
          UnauthenticatedCall(d, call) /\ UNCHANGED <<mergeVars, dbVars, logVars>>

SpecAuth == Init /\ [][NextAuth]_vars

----------------------------------------------------------------------------
(* SpecFaults: the engines on a storage that fails *)

\* The FinanceCloudSync key loses its payload (the site's storage is
\* cleared): reads of it parse '{}' from then on.
StorageCleared ==
    /\ faults < MaxFaults
    /\ cloud' = EmptyObject
    /\ faults' = faults + 1
    /\ UNCHANGED <<localStore, username, syncInProgress, pendingOperations,
                   status, lastSyncTimestamp, frames, clock, dropped, deleting,
                   deleteDone, lastCycle, logKept, mutations,
                   online, served, authError>>

\* The FinanceCloudSync key comes to hold text that JSON.parse rejects.
StorageCorrupted ==
    /\ faults < MaxFaults
    /\ cloud' = Corrupt
    /\ faults' = faults + 1
    /\ UNCHANGED <<localStore, username, syncInProgress, pendingOperations,
                   status, lastSyncTimestamp, frames, clock, dropped, deleting,
                   deleteDone, lastCycle, logKept, mutations,
                   online, served, authError>>

\* performSync from its await to its end, localStorage.setItem throwing (the
\* quota is exceeded) on one of the two keys or on both.
PerformSyncResumeRefused(d) ==
    /\ faults < MaxFaults
    /\ \E localOk, cloudOk \in BOOLEAN :
          /\ ~(localOk /\ cloudOk)
          /\ ResumeWith(d, localOk, cloudOk)
    /\ faults' = faults + 1

NextFaults ==
    \/ Next
    \/ StorageCleared /\ UNCHANGED <<mergeVars, dbVars, logVars>>
    \/ StorageCorrupted /\ UNCHANGED <<mergeVars, dbVars, logVars>>
    \/ \E d \in Devices :
          PerformSyncResumeRefused(d) /\ UNCHANGED <<mergeVars, dbVars, logVars>>

SpecFaults == Init /\ [][NextFaults]_vars

(***************************************************************************)
(* SpecFaultsFair: SpecFaults, every suspended performSync resumed         *)
(***************************************************************************)

\* The continuation of an await is a job of the microtask queue, which the
\* event loop always runs: a suspended performSync resumes, its writes
\* accepted or refused.
FairnessFaults ==
    \A d \in Devices :
        WF_sysVars(PerformSyncResume(d) \/ PerformSyncResumeRefused(d))

SpecFaultsFair == Init /\ [][NextFaults]_vars /\ FairnessFaults

----------------------------------------------------------------------------
(* SpecLive: the engines under fair timers, the log's entries left out *)

\* The sync log is written and never read by a cycle; without its entries
\* the engines have finitely many states and cycles can run for ever.
InitLive ==
    /\ MergeIdle
    /\ DbIdle
    /\ LogIdle
    /\ InitSys
    /\ logKept = FALSE

\* setInterval fires every 3 s on every device, and a continuation that is
\* ready to run is run.
Fairness ==
    \A d \in Devices :
        /\ WF_sysVars(TimerTick(d))
        /\ WF_sysVars(PerformSyncResume(d))

SpecLive == InitLive /\ [][Next]_vars /\ Fairness

----------------------------------------------------------------------------
(* SpecIntegrity: FinanceDatabase.verifyDataIntegrity *)

MaxUserId == 2
MaxRows == 2
MaxVerifyRuns == 2

UserIds == 1..MaxUserId

\* The rows of the users table for a set of user ids, in ascending id order.
RECURSIVE UserRows(_, _)
UserRows(S, from) ==
    IF from > MaxUserId THEN <<>>
    ELSE (IF from \in S THEN <<[id |-> from]>> ELSE <<>>)
         \o UserRows(S, from + 1)

\* The rows of a table with a user_id column.  Rows that this install
\* created all carry the id 1 (createTransaction and registerDevice save the
\* counter as it was before getNextId); rows of a snapshot brought in by
\* importDatabase carry the ids of the snapshot, here their positions.
RowsOf(owners, imported) ==
    [i \in 1..Len(owners) |->
        [id |-> IF imported THEN i ELSE 1, user_id |-> owners[i]]]

OwnerLists == UNION {[1..n -> UserIds] : n \in 0..MaxRows}

\* FinanceDatabase.saveDatabase: the metadata counts, then the write
\* (lastModified and size are left out).
saveDatabase(d) ==
    [d EXCEPT !.metadata.totalUsers = Len(d.tables.users.data),
              !.metadata.totalTransactions = Len(d.tables.transactions.data)]

\* db.tables.users.data.some(user => user.id === id)
userExists(d, id) ==
    \E i \in 1..Len(d.tables.users.data) : d.tables.users.data[i].id = id

\* The errors verifyDataIntegrity collects: one per transaction, then one per
\* device, whose user_id names no user.
RECURSIVE Violations(_, _, _)
Violations(d, table, rows) ==
    IF rows = <<>> THEN <<>>
    ELSE (IF userExists(d, Head(rows).user_id) THEN <<>>
          ELSE <<[table |-> table, id |-> Head(rows).id,
                  user_id |-> Head(rows).user_id]>>)
         \o Violations(d, table, Tail(rows))

\* A repair that forgets the devices table.
RepairTransactionsOnly(d) ==
    saveDatabase([d EXCEPT !.tables.transactions.data =
        SelectSeq(@, LAMBDA t : userExists(d, t.user_id))])

\* FinanceDatabase.repairDataIntegrity on the snapshot read, and its save
repairDataIntegrity(d) ==
    saveDatabase([d EXCEPT
        !.tables.transactions.data =
            SelectSeq(@, LAMBDA t : userExists(d, t.user_id)),
        !.tables.devices.data =
            SelectSeq(@, LAMBDA dev : userExists(d, dev.user_id))])

\* A FinanceTrackerDB snapshot as saveDatabase last wrote it: any users, any
\* transactions and devices, each naming a user id that may or may not exist.
InitIntegrity ==
    /\ MergeIdle
    /\ SysIdle
    /\ LogIdle
    /\ \E S \in SUBSET UserIds : \E t \in OwnerLists, dv \in OwnerLists :
       \E imported \in BOOLEAN :
          db = saveDatabase(
                  [metadata |-> [totalUsers |-> 0, totalTransactions |-> 0],
                   tables |-> [users |-> [data |-> UserRows(S, 1)],
                               transactions |-> [data |-> RowsOf(t, imported)],
                               devices |-> [data |-> RowsOf(dv, imported)]]])
    /\ dbBefore = <<>>
    /\ errors = <<>>
    /\ verifyRuns = 0
    /\ minted = <<>>
    /\ isConnected = FALSE
    /\ lastCall = <<>>

\* FinanceDatabase.verifyDataIntegrity, with the repair it calls
VerifyDataIntegrity ==
    /\ verifyRuns < MaxVerifyRuns
    /\ LET found == Violations(db, "transactions", db.tables.transactions.data)
                    \o Violations(db, "devices", db.tables.devices.data)
       IN  /\ errors' = found
           /\ db' = IF Len(found) > 0 THEN repairDataIntegrity(db) ELSE db
    /\ dbBefore' = db
    /\ verifyRuns' = verifyRuns + 1
    /\ UNCHANGED <<minted, isConnected, lastCall>>

NextIntegrity ==
    VerifyDataIntegrity /\ UNCHANGED <<mergeVars, sysVars, logVars>>

SpecIntegrity == InitIntegrity /\ [][NextIntegrity]_vars

----------------------------------------------------------------------------
(* SpecOffline and SpecQuery: the engines, the page's connectivity, and the  *)
(* page's queries                                                          *)

\* The page of device d loses its network connection: navigator.onLine
\* becomes false.  No listener of the engine is registered for it.
GoOffline(d) ==
    /\ online[d]
    /\ online' = [online EXCEPT ![d] = FALSE]
    /\ UNCHANGED <<cloud, localStore, username, syncInProgress,
                   pendingOperations, status, lastSyncTimestamp, frames, clock,
                   dropped, deleting, deleteDone, lastCycle, faults, logKept,
                   mutations, served, authError>>

\* The connection of the page of device d returns.
GoOnline(d) ==
    /\ ~online[d]
    /\ online' = [online EXCEPT ![d] = TRUE]
    /\ UNCHANGED <<cloud, localStore, username, syncInProgress,
                   pendingOperations, status, lastSyncTimestamp, frames, clock,
                   dropped, deleting, deleteDone, lastCycle, faults, logKept,
                   mutations, served, authError>>

\* getTransactions: [] before login, else the stored local list as it is;
\* the call looks at no flag.
GetTransactions(d) ==
    /\ served' = [device |-> d, syncInProgress |-> syncInProgress[d]]
    /\ UNCHANGED <<cloud, localStore, username, syncInProgress,
                   pendingOperations, status, lastSyncTimestamp, frames, clock,
                   dropped, deleting, deleteDone, lastCycle, faults, logKept,
                   mutations, online, authError>>

NextOffline ==
    \/ Next
    \/ \E d \in Devices : GoOffline(d) /\ UNCHANGED <<mergeVars, dbVars, logVars>>
    \/ \E d \in Devices : GoOnline(d) /\ UNCHANGED <<mergeVars, dbVars, logVars>>

SpecOffline == Init /\ [][NextOffline]_vars

NextQuery ==
    \/ Next
    \/ \E d \in Devices :
          GetTransactions(d) /\ UNCHANGED <<mergeVars, dbVars, logVars>>

SpecQuery == Init /\ [][NextQuery]_vars

(***************************************************************************)
(* SpecLog: logSyncEvent called again and again on the shared blob         *)
(***************************************************************************)

MaxLogCalls == 1100

\* The entry that the n-th call pushes; details stands for the timestamp and
\* the details of the call, different for every call.
LogEntry(n) ==
    [event |-> "sync_completed", username |-> "alice", deviceId |-> "d1",
     details |-> n]

InitLog ==
    /\ MergeIdle
    /\ DbIdle
    /\ LogIdle
    /\ InitSys
    /\ logKept = TRUE

\* One call of logSyncEvent by device d1: read the blob, push, trim, save.
LogSyncEvent ==
    /\ logCalls < MaxLogCalls
    /\ logCalls' = logCalls + 1
    /\ logBefore' = cloud.syncLog
    /\ cloud' = logSyncEvent(getCloudData(cloud), "sync_completed", "alice",
                             "d1", logCalls + 1)
    /\ UNCHANGED <<localStore, username, syncInProgress, pendingOperations,
                   status, lastSyncTimestamp, frames, clock, dropped, deleting,
                   deleteDone, lastCycle, faults, logKept, mutations, online,
                   served, authError>>

NextLog == LogSyncEvent /\ UNCHANGED <<mergeVars, dbVars>>

SpecLog == InitLog /\ [][NextLog]_vars

(***************************************************************************)
(* SpecStore: the FinanceDatabase constructor, createUser,                 *)
(* createTransaction and deleteTransaction on the key FinanceTrackerDB     *)
(***************************************************************************)

MaxCreates == 3

Usernames == {"alice", "bob"}
Emails == {"a@fin", "b@fin"}
Types == {"income", "expense"}

\* localStorage.getItem('FinanceTrackerDB') is null.
NoDatabase == <<>>

\* No FinanceDatabase call has been made yet.
NoCall == [name |-> "none", error |-> "none"]

\* FinanceDatabase.createDatabase: the structure written when the key is
\* missing: metadata, tables and sequences, and no indexes (the columns and
\* the other tables are left out).
createDatabase ==
    [metadata |-> [totalUsers |-> 0, totalTransactions |-> 0],
     tables |-> [users |-> [data |-> <<>>],
                 transactions |-> [data |-> <<>>],
                 devices |-> [data |-> <<>>]],
     sequences |-> [users |-> 1, transactions |-> 1]]

\* The index objects createIndexes names (transactions_by_date and
\* devices_by_user, which no method reads, are left out).
EmptyIndexes ==
    [users_by_username |-> EmptyObject, users_by_email |-> EmptyObject,
     transactions_by_user |-> EmptyObject]

\* A snapshot that is in the storage with its index objects before the page
\* loads, as importDatabase stores one.
StoredDatabase == Spread(createDatabase, [indexes |-> EmptyIndexes])

\* users.forEach(user => index[user[field]] = user): the last row wins.
UsersBy(d, field) ==
    LET rows == d.tables.users.data
    IN  [k \in {rows[i][field] : i \in 1..Len(rows)} |->
            rows[CHOOSE i \in 1..Len(rows) :
                    /\ rows[i][field] = k
                    /\ \A j \in (i + 1)..Len(rows) : rows[j][field] # k]]

\* transactions.forEach(t => index[t.user_id].push(t))
TransactionsByUser(d) ==
    LET rows == d.tables.transactions.data
    IN  [k \in {rows[i].user_id : i \in 1..Len(rows)} |->
            SelectSeq(rows, LAMBDA t : t.user_id = k)]

\* FinanceDatabase.rebuildIndexes on the snapshot it reads, which holds
\* indexes: every index emptied, the three rebuilt, and the save.
rebuildIndexes(d) ==
    saveDatabase([d EXCEPT !.indexes =
        Spread([k \in DOMAIN d.indexes |-> EmptyObject],
               [users_by_username |-> UsersBy(d, "username"),
                users_by_email |-> UsersBy(d, "email"),
                transactions_by_user |-> TransactionsByUser(d)])])

\* FinanceDatabase.getNextId on the snapshot it reads: the id it returns and
\* the snapshot it saves, the counter of the table raised by one.
getNextId(d, table) ==
    [id |-> d.sequences[table],
     saved |-> saveDatabase([d EXCEPT !.sequences[table] = @ + 1])]

\* The storage when the page loads: empty, or holding a snapshot with its
\* index objects.
InitStore ==
    /\ MergeIdle
    /\ SysIdle
    /\ LogIdle
    /\ db \in {NoDatabase, StoredDatabase}
    /\ dbBefore = NoDatabase
    /\ errors = <<>>
    /\ verifyRuns = 0
    /\ minted = <<>>
    /\ isConnected = FALSE
    /\ lastCall = NoCall

\* new FinanceDatabase(): init.  createDatabase writes its structure when the
\* key is missing; createTables saves the metadata (updateMetadata);
\* createIndexes assigns the index objects to the copy it read and saves
\* nothing, and rebuildIndexes reads the stored snapshot again:
\* Object.keys(db.indexes) throws when that snapshot has no indexes, and init
\* ends there.  Else the indexes are rebuilt and saved, verifyDataIntegrity
\* runs, and isConnected is set.
Construct ==
    /\ LET created == IF db = NoDatabase THEN createDatabase ELSE db
           tabled == saveDatabase(created)
           indexed == rebuildIndexes(tabled)
           found == Violations(indexed, "transactions",
                               indexed.tables.transactions.data)
                    \o Violations(indexed, "devices",
                                  indexed.tables.devices.data)
       IN  IF "indexes" \notin DOMAIN tabled
           THEN /\ db' = tabled
                /\ isConnected' = FALSE
                /\ lastCall' = [name |-> "init", error |-> "TypeError"]
           ELSE /\ db' = IF Len(found) > 0 THEN repairDataIntegrity(indexed)
                         ELSE indexed
                /\ isConnected' = TRUE
                /\ lastCall' = [name |-> "init", error |-> "none"]
    /\ dbBefore' = db
    /\ UNCHANGED <<errors, verifyRuns, minted>>

\* createUser on a constructed instance.  The snapshot is read first (line
\* 330) and a taken username or email throws; getNextId and
\* createUserDefaultCategories each read and save a snapshot of their own,
\* and the final saveDatabase(db) writes the snapshot of line 330 with the
\* new row and index entries, its counters as they were read.
DbCreateUser(name, email) ==
    /\ isConnected
    /\ LET stale == db
           next == getNextId(db, "users")
           user == [id |-> next.id, username |-> name, email |-> email]
       IN  IF \/ name \in DOMAIN stale.indexes.users_by_username
              \/ email \in DOMAIN stale.indexes.users_by_email
           THEN /\ lastCall' = [name |-> "createUser", error |-> "exists"]
                /\ UNCHANGED db
           ELSE /\ db' = saveDatabase([stale EXCEPT
                            !.tables.users.data = Append(@, user),
                            !.indexes.users_by_username = Put(@, name, user),
                            !.indexes.users_by_email = Put(@, email, user)])
                /\ lastCall' = [name |-> "createUser", error |-> "none"]
    /\ dbBefore' = db
    /\ UNCHANGED <<errors, verifyRuns, minted, isConnected>>

\* createTransaction on a constructed instance.  The snapshot is read first
\* (line 483); a missing user throws before any id is taken; else getNextId
\* reads and saves a snapshot of its own (line 491), and the final
\* saveDatabase(db) (line 516) writes the snapshot of line 483 with the new
\* row and index entry, its counters as they were read.
DbCreateTransaction(userId, type) ==
    /\ isConnected
    /\ Len(db.tables.transactions.data) < MaxCreates
    /\ LET stale == db
           next == getNextId(db, "transactions")
           transaction == [id |-> next.id, user_id |-> userId, type |-> type,
                           is_deleted |-> FALSE]
       IN  IF ~userExists(stale, userId)
           THEN /\ lastCall' = [name |-> "createTransaction",
                                error |-> "not_found"]
                /\ UNCHANGED <<db, minted>>
           ELSE /\ db' = saveDatabase([stale EXCEPT
                            !.tables.transactions.data = Append(@, transaction),
                            !.indexes.transactions_by_user =
                                Put(@, userId,
                                    Append(OrEmpty(@, userId), transaction))])
                /\ minted' = Append(minted, next.id)
                /\ lastCall' = [name |-> "createTransaction",
                                error |-> "none"]
    /\ dbBefore' = db
    /\ UNCHANGED <<errors, verifyRuns, isConnected>>

\* The index of the first row find() returns, 0 when there is none.
FindTransaction(d, transactionId, userId) ==
    LET rows == d.tables.transactions.data
        hits == {i \in 1..Len(rows) : /\ rows[i].id = transactionId
                                      /\ rows[i].user_id = userId}
    IN  IF hits = {} THEN 0
        ELSE CHOOSE i \in hits : \A j \in hits : i <= j

\* FinanceDatabase.deleteTransaction on a constructed instance: the first
\* matching row is marked is_deleted and the snapshot is saved; no match
\* throws.
DbDeleteTransaction(transactionId, userId) ==
    /\ isConnected
    /\ LET n == FindTransaction(db, transactionId, userId)
       IN  IF n = 0
           THEN /\ lastCall' = [name |-> "deleteTransaction",
                                error |-> "not_found"]
                /\ UNCHANGED db
           ELSE /\ db' = saveDatabase([db EXCEPT
                            !.tables.transactions.data[n].is_deleted = TRUE])
                /\ lastCall' = [name |-> "deleteTransaction",
                                error |-> "none"]
    /\ dbBefore' = db
    /\ UNCHANGED <<errors, verifyRuns, minted, isConnected>>

NextStore ==
    \/ Construct /\ UNCHANGED <<mergeVars, sysVars, logVars>>
    \/ \E name \in Usernames, email \in Emails :
          DbCreateUser(name, email)
          /\ UNCHANGED <<mergeVars, sysVars, logVars>>
    \/ \E userId \in UserIds, type \in Types :
          DbCreateTransaction(userId, type)
          /\ UNCHANGED <<mergeVars, sysVars, logVars>>
    \/ \E transactionId \in 1..MaxCreates, userId \in UserIds :
          DbDeleteTransaction(transactionId, userId)
          /\ UNCHANGED <<mergeVars, sysVars, logVars>>

SpecStore == InitStore /\ [][NextStore]_vars

----------------------------------------------------------------------------
(* Properties *)

UniqueIds(s) == \A i, j \in 1..Len(s) : s[i].id = s[j].id => i = j

HasField(r, k, v) == k \in DOMAIN r /\ r[k] = v

SyncTags == {"syncStatus", "source"}

\* A call of device d that reaches performSync without a listener's test.
DirectSyncCall(d) == StorageChangeSync(d) \/ ForceSync(d)

\* A call of device d that goes through a listener's test.
ListenerSyncCall(d) == TimerTick(d) \/ FocusEvent(d) \/ VisibilityChange(d)

\* A call of device d that writes a store and then calls performSync.
MutationCall(d) ==
    \/ \E date \in Dates : AddTransaction(d, date)
    \/ \E id \in 1..clock : DeleteTransaction(d, id)

\* C1: for one engine at most one sync cycle is in flight at any time, the
\* flag is set exactly while it is, and a trigger that arrives while the flag
\* is set starts no second reconciliation and leaves both stores as they are
\* (addTransaction and deleteTransaction start none after their own writes).
C1_OneCycleInFlight ==
    /\ [](\A d \in Devices :
            /\ Len(frames[d]) <= 1
            /\ syncInProgress[d] <=> frames[d] # <<>>)
    /\ [][\A d \in Devices :
            /\ (syncInProgress[d] /\ (DirectSyncCall(d) \/ ListenerSyncCall(d)))
                  => UNCHANGED <<cloud, localStore, frames>>
            /\ (syncInProgress[d] /\ MutationCall(d)) => UNCHANGED frames]_vars

\* A cycle of some engine is in flight and a call has been turned away meanwhile.
C1_Witness ==
    \E d \in Devices : syncInProgress[d] /\ dropped[d] /\ Len(frames[d]) = 1

\* C2 (as stated): the merge run on its own output returns that output, the
\* same records with the same syncStatus.
C2_RemergeIsNoOp == op = "remerged" => out = merged

\* C2 (amended): the merge run on its own output M returns the records of M in
\* the same order, equal to M's in every field but syncStatus and source,
\* which are 'synced' and 'cloud' on every record.
C2_RemergeKeepsRecords ==
    op = "remerged" =>
        /\ Len(out) = Len(merged)
        /\ \A i \in 1..Len(merged) :
              /\ Without(out[i], SyncTags) = Without(merged[i], SyncTags)
              /\ HasField(out[i], "syncStatus", "synced")
              /\ HasField(out[i], "source", "cloud")

\* The merge was run on an output that holds a pending record, whose status changed.
C2_Witness ==
    /\ op = "remerged"
    /\ \E i \in 1..Len(merged) : merged[i].syncStatus = "pending"
    /\ out # merged

\* C3: both lists hold the id and the cloud copy is the later one: the output
\* holds one record of that id, with the cloud copy's fields, 'synced', and
\* tagged conflictResolution = 'cloud_wins'.
C3_CloudNewerTaggedCloudWins ==
    (op = "merged" /\ UniqueIds(localIn) /\ UniqueIds(cloudIn)) =>
        \A i \in 1..Len(localIn), j \in 1..Len(cloudIn) :
            (/\ localIn[i].id = cloudIn[j].id
             /\ cloudIn[j].createdAt > localIn[i].createdAt) =>
                /\ Cardinality({k \in 1..Len(merged) :
                                    merged[k].id = cloudIn[j].id}) = 1
                /\ \A k \in 1..Len(merged) :
                      merged[k].id = cloudIn[j].id =>
                          /\ \A f \in DOMAIN cloudIn[j] \ {"syncStatus"} :
                                HasField(merged[k], f, cloudIn[j][f])
                          /\ HasField(merged[k], "syncStatus", "synced")
                          /\ HasField(merged[k], "conflictResolution", "cloud_wins")

\* C4: both lists hold the id and the local copy is strictly the later one:
\* the output holds one record of that id, the local copy tagged
\* 'conflict_resolved' and conflictResolution = 'local_wins'.
C4_LocalNewerWins ==
    (op = "merged" /\ UniqueIds(localIn) /\ UniqueIds(cloudIn)) =>
        \A i \in 1..Len(localIn), j \in 1..Len(cloudIn) :
            (/\ localIn[i].id = cloudIn[j].id
             /\ localIn[i].createdAt > cloudIn[j].createdAt) =>
                /\ Cardinality({k \in 1..Len(merged) :
                                    merged[k].id = localIn[i].id}) = 1
                /\ \A k \in 1..Len(merged) :
                      merged[k].id = localIn[i].id =>
                          /\ \A f \in DOMAIN localIn[i] \ {"syncStatus"} :
                                HasField(merged[k], f, localIn[i][f])
                          /\ HasField(merged[k], "syncStatus", "conflict_resolved")
                          /\ HasField(merged[k], "conflictResolution", "local_wins")

\* C5: one list holds the id deleted with the later createdAt, the other holds
\* it not deleted with the earlier one: every record of that id in the output
\* is the deleted one, whichever list held it.
C5_NewerDeleteSurvivesMerge ==
    (op = "merged" /\ UniqueIds(localIn) /\ UniqueIds(cloudIn)) =>
        \A i \in 1..Len(localIn), j \in 1..Len(cloudIn) :
            (/\ localIn[i].id = cloudIn[j].id
             /\ \/ /\ localIn[i].deleted /\ ~cloudIn[j].deleted
                   /\ localIn[i].createdAt > cloudIn[j].createdAt
                \/ /\ cloudIn[j].deleted /\ ~localIn[i].deleted
                   /\ cloudIn[j].createdAt > localIn[i].createdAt) =>
                \A k \in 1..Len(merged) :
                    merged[k].id = localIn[i].id => merged[k].deleted

\* C6: once deleteTransaction(x) has run its cycle and returned on a device,
\* x is a record neither of the cloud list nor of that device's local list.
C6_DeletedStaysDeleted ==
    \A d \in Devices : \A x \in deleteDone[d] :
        /\ x \notin SeqIds(cloud.transactions[username[d]])
        /\ x \notin SeqIds(localStore[d][username[d]])

\* C7: the merge and the merge with its arguments exchanged hold the same
\* ids, the union of the ids of the two lists.
C7_SameIdsBothWays ==
    op = "swapped" =>
        /\ SeqIds(merged) = SeqIds(out)
        /\ SeqIds(merged) = SeqIds(localIn) \cup SeqIds(cloudIn)

\* Both merges were run on lists that share an id and differ in another.
C7_Witness ==
    /\ op = "swapped"
    /\ SeqIds(localIn) \cap SeqIds(cloudIn) # {}
    /\ SeqIds(localIn) \ SeqIds(cloudIn) # {}

\* C8: resolve returns, for a local record strictly later than the cloud one,
\* the local fields tagged 'conflict_resolved' / 'local_wins' with the cloud
\* record as originalCloudVersion; for every other pair, ties included, the
\* cloud fields tagged 'synced' / 'cloud_wins' with the local record as
\* originalLocalVersion.
C8_ResolveLastWriterWins ==
    op = "resolved" =>
        LET l == localIn[1]
            c == cloudIn[1]
            r == out[1]
        IN  IF l.createdAt > c.createdAt
            THEN /\ DOMAIN r = DOMAIN l \cup {"syncStatus", "conflictResolution",
                                             "originalCloudVersion"}
                 /\ \A f \in DOMAIN l \ {"syncStatus"} : r[f] = l[f]
                 /\ r.syncStatus = "conflict_resolved"
                 /\ r.conflictResolution = "local_wins"
                 /\ r.originalCloudVersion = c
            ELSE /\ DOMAIN r = DOMAIN c \cup {"syncStatus", "conflictResolution",
                                             "originalLocalVersion"}
                 /\ \A f \in DOMAIN c \ {"syncStatus"} : r[f] = c[f]
                 /\ r.syncStatus = "synced"
                 /\ r.conflictResolution = "cloud_wins"
                 /\ r.originalLocalVersion = l

\* resolve was applied to two different records with equal createdAt, and to
\* a pair whose local record is the later one.
C8_Witness ==
    /\ op = "resolved"
    /\ localIn[1] # cloudIn[1]
    /\ localIn[1].createdAt = cloudIn[1].createdAt
    /\ out[1].conflictResolution = "cloud_wins"

\* C9: while a reconciliation pass of a device holds a record it tagged
\* pending (local, absent from the cloud), the device's outbound queue holds
\* exactly one 'create' item for that record id.
C9_PendingRecordQueuedOnce ==
    \A d \in Devices : \A n \in 1..Len(frames[d]) :
        LET synced == frames[d][n].syncedTransactions
        IN  \A k \in 1..Len(synced) :
                synced[k].syncStatus = "pending" =>
                    Cardinality({q \in 1..Len(pendingOperations[d]) :
                        /\ pendingOperations[d][q].operation = "create"
                        /\ pendingOperations[d][q].recordId = synced[k].id}) = 1

\* C11: a cycle in which the storage refused the write of the local list or
\* a write of the cloud blob ended in 'error', logged no sync_completed entry
\* and dispatched no dataChanged.
C11_RefusedWriteFailsCycle ==
    \A d \in Devices :
        lastCycle[d].refused =>
            /\ lastCycle[d].result = "error"
            /\ lastCycle[d].logged # <<"sync_completed">>
            /\ lastCycle[d].notified = 0

\* C12: a cycle in which an error was raised displayed 'error' last, appended
\* exactly one sync_error entry, did not reject the promise performSync
\* returned, and left the flag clear for the next trigger.
C12_ErrorContained ==
    \A d \in Devices :
        lastCycle[d].result = "error" =>
            /\ lastCycle[d].trail[Len(lastCycle[d].trail)] = "error"
            /\ lastCycle[d].logged = <<"sync_error">>
            /\ ~lastCycle[d].rejected
            /\ frames[d] = <<>> => ~syncInProgress[d]

\* C13: a cycle that ended without error recorded lastSyncTimestamp,
\* displayed 'syncing' then 'synced', logged one sync_completed entry and
\* dispatched one dataChanged; a cycle that ended in error displayed no
\* 'synced' and dispatched nothing; 'synced' and 'error' are displayed only
\* after 'syncing'.
C13_SuccessStepsInOrder ==
    \A d \in Devices :
        LET c == lastCycle[d]
        IN  /\ c.result = "synced" =>
                  /\ c.stamped
                  /\ c.trail = <<"syncing", "synced">>
                  /\ c.logged = <<"sync_completed">>
                  /\ c.notified = 1
            /\ c.result = "error" =>
                  /\ \A i \in 1..Len(c.trail) : c.trail[i] # "synced"
                  /\ c.notified = 0
            /\ c.trail # <<>> => c.trail[1] = "syncing"

CloudCollections == {"users", "transactions", "devices", "syncLog", "locks"}

\* C14: when the FinanceCloudSync key holds no payload or an unparsable one,
\* getCloudData returns an object with the users, transactions, devices,
\* syncLog and locks collections, all empty.
C14_LoadsWellFormed ==
    (DOMAIN cloud = {} \/ "unparsable" \in DOMAIN cloud) =>
        /\ CloudCollections \subseteq DOMAIN getCloudData(cloud)
        /\ \A k \in CloudCollections : DOMAIN getCloudData(cloud)[k] = {}

\* C16: no cycle reconciles cloud transactions of a user for whom the
\* snapshot it read holds no user record.
C16_NoOrphanMerged ==
    \A d \in Devices : \A n \in 1..Len(frames[d]) :
        username[d] \notin DOMAIN frames[d][n].cloudData.users =>
            frames[d][n].cloudTransactions = <<>>

\* The rows of a table that name a user of the users table, in their order.
OwnedRows(d, table) ==
    SelectSeq(d.tables[table].data,
              LAMBDA r : \E k \in 1..Len(d.tables.users.data) :
                            d.tables.users.data[k].id = r.user_id)

\* The rows of a table that name no user of the users table, in their order.
OrphanRows(d, table) ==
    SelectSeq(d.tables[table].data,
              LAMBDA r : \A k \in 1..Len(d.tables.users.data) :
                            d.tables.users.data[k].id # r.user_id)

\* C15: after verifyDataIntegrity the persisted snapshot holds no transaction
\* and no device whose user_id is absent from users; the rows removed are
\* exactly those that named no user, each reported, every other row is as it
\* was and in its place, and users is as it was; a second run reports
\* nothing and changes nothing.
C15_OrphansRemovedOnly ==
    verifyRuns >= 1 =>
        /\ \A table \in {"transactions", "devices"} :
              /\ OrphanRows(db, table) = <<>>
              /\ db.tables[table].data = OwnedRows(dbBefore, table)
              /\ SelectSeq(errors, LAMBDA e : e.table = table)
                    = [i \in 1..Len(OrphanRows(dbBefore, table)) |->
                          [table |-> table,
                           id |-> OrphanRows(dbBefore, table)[i].id,
                           user_id |-> OrphanRows(dbBefore, table)[i].user_id]]
        /\ db.tables.users = dbBefore.tables.users
        /\ verifyRuns >= 2 => (errors = <<>> /\ db = dbBefore)

\* The verifier has run twice on a snapshot from which its first run removed
\* a transaction and a device and in which it kept a transaction.
C15_Witness ==
    /\ verifyRuns = 2
    /\ db.metadata.totalTransactions = 1
    /\ Len(db.tables.transactions.data) = 1
    /\ db.tables.transactions.data[1].id = 2
    /\ db.tables.devices.data = <<>>
    /\ db.tables.users.data # <<>>

\* The user's cloud list and device d's list are what d's cycle in flight read.
QuietCycle(d) ==
    /\ frames[d] # <<>>
    /\ cloud.transactions[username[d]] = Head(frames[d]).cloudTransactions
    /\ localStore[d][username[d]] = Head(frames[d]).localTransactions

\* C17: when a cycle ends 'synced' and nothing else wrote the user's lists
\* while it ran, the device's local list and the user's cloud list hold the
\* same ids.
C17_SyncedWritesBoth ==
    [][\A d \in Devices :
          (QuietCycle(d) /\ PerformSyncResume(d) /\ status'[d] = "synced") =>
              SeqIds(localStore'[d][username[d]])
                  = SeqIds(cloud'.transactions[username[d]])]_vars

\* C19: a record that is in the cloud list when a device's cycle writes back,
\* and was not when the cycle read the cloud, is in the cloud list after the
\* cycle.
C19_ConcurrentCloudWriteKept ==
    [][\A d \in Devices :
          (frames[d] # <<>> /\ PerformSyncResume(d)) =>
              (SeqIds(cloud.transactions[username[d]])
                  \ SeqIds(Head(frames[d]).cloudTransactions))
                      \subseteq SeqIds(cloud'.transactions[username[d]])]_vars

\* C20: a call of a device that changes a local list or a cloud list is made
\* while the device's syncInProgress flag is set, addTransaction and
\* deleteTransaction included.
C20_StoresWrittenUnderFlag ==
    [][\A d \in Devices :
          (/\ MutationCall(d) \/ PerformSyncResume(d)
           /\ \/ localStore' # localStore
              \/ cloud'.transactions # cloud.transactions)
              => syncInProgress[d]]_vars

\* The engines' stores agree: every authenticated device's list and the
\* user's cloud list are the same list, every record of it 'synced'.
Consistent ==
    \A d \in Devices :
        username[d] # Null =>
            /\ localStore[d][username[d]] = cloud.transactions[username[d]]
            /\ \A i \in 1..Len(cloud.transactions[username[d]]) :
                  cloud.transactions[username[d]][i].syncStatus = "synced"

\* C18: if addTransaction and deleteTransaction calls stop, then from some
\* moment on all local lists and the cloud list hold the same records, all
\* 'synced', and no cycle changes a store.
C18_EventuallyConsistent ==
    \/ []<><<\E d \in Devices : MutationCall(d)>>_vars
    \/ /\ <>[]Consistent
       /\ <>[][UNCHANGED <<localStore, cloud>>]_vars

\* The calls have stopped, both devices are logged in, no cycle is in flight,
\* and the lists agree on records that both devices added.
C18_Witness ==
    /\ mutations = MaxMutations
    /\ \A d \in Devices : username[d] # Null /\ frames[d] = <<>>
    /\ Consistent
    /\ \E u \in Users :
          {cloud.transactions[u][i].deviceId :
              i \in 1..Len(cloud.transactions[u])} = Devices

\* C21: no sync cycle in flight was started by a trigger that arrived while
\* the device was offline.
C21_NoCycleWhileOffline ==
    \A d \in Devices : \A n \in 1..Len(frames[d]) : frames[d][n].online

\* C22: getTransactions is served only while the device's syncInProgress is
\* false.
C22_NoQueryMidCycle == ~served.syncInProgress


\* C23: after any sequence of logSyncEvent calls the log holds at most
\* LogCeiling entries, and it is a tail of the log before the last call
\* followed by the entry of that call: only the oldest entries are dropped,
\* the order is kept and the new entry is the last one.
C23_LogBoundedRing ==
    logCalls > 0 =>
        LET log == cloud.syncLog
            full == Append(logBefore, LogEntry(logCalls))
        IN  /\ Len(log) <= LogCeiling
            /\ Len(log) >= 1
            /\ log = SubSeq(full, Len(full) - Len(log) + 1, Len(full))

\* A call that trimmed the log.
C23_Witness ==
    /\ logCalls > LogCeiling
    /\ Len(logBefore) = LogCeiling
    /\ Len(cloud.syncLog) = LogKeep

\* C24: after any sequence of createTransaction calls no two rows of the
\* transactions table have the same id, and the saved counter of the table
\* is greater than every id getNextId has handed out.
C24_MintedIdsUnique ==
    db # NoDatabase =>
        LET rows == db.tables.transactions.data
        IN  /\ \A i, j \in 1..Len(rows) : i # j => rows[i].id # rows[j].id
            /\ \A n \in 1..Len(minted) :
                  db.sequences.transactions > minted[n]

\* C25: after SyncEngine.deleteTransaction has removed a record, the record
\* is still in the device's local list and in the user's cloud list if it
\* was there, kept as a deleted record.
C25_DeleteIsSoft ==
    [][\A d \in Devices : \A id \in 1..clock :
          DeleteTransaction(d, id) =>
              /\ id \in SeqIds(localStore'[d][username[d]])
              /\ id \in SeqIds(cloud.transactions[username[d]]) =>
                    id \in SeqIds(cloud'.transactions[username[d]])]_vars

\* C26: when a cycle ends 'synced', a record of the device's local list is
\* tagged 'pending' only if its id is not in the user's cloud list, and no
\* record of the cloud list is tagged 'pending'.
C26_StatusIsOutcome ==
    [][\A d \in Devices :
          (PerformSyncResume(d) /\ status'[d] = "synced") =>
              LET u == username[d]
                  local == localStore'[d][u]
                  remote == cloud'.transactions[u]
              IN  /\ \A i \in 1..Len(local) :
                        local[i].syncStatus = "pending" =>
                            local[i].id \notin SeqIds(remote)
                  /\ \A i \in 1..Len(remote) :
                        remote[i].syncStatus # "pending"]_vars

C28_LocalOnlyKeepsSynced ==
    op = "merged" =>
        \A i \in 1..Len(localIn) :
            localIn[i].id \notin SeqIds(cloudIn) =>
                \E k \in 1..Len(merged) :
                    /\ Without(merged[k], SyncTags)
                          = Without(localIn[i], SyncTags)
                    /\ merged[k].syncStatus =
                          (IF localIn[i].syncStatus = "synced"
                           THEN "synced" ELSE "pending")

\* C29: the list syncTransactions returns is ordered by date descending:
\* of two adjacent records the first has the later or the same date.
C29_OrderedByDateDesc ==
    /\ op \in {"merged", "remerged", "swapped"} =>
          \A i \in 1..(Len(merged) - 1) : merged[i].date >= merged[i + 1].date
    /\ op \in {"remerged", "swapped"} =>
          \A i \in 1..(Len(out) - 1) : out[i].date >= out[i + 1].date

\* The merge was run on lists whose records came in ascending date order,
\* one from each list.
C29_Witness ==
    /\ op = "merged"
    /\ Len(cloudIn) = 1
    /\ Len(localIn) = 1
    /\ cloudIn[1].id # localIn[1].id
    /\ cloudIn[1].date < localIn[1].date
    /\ Len(merged) = 2
    /\ merged[1].id = localIn[1].id

\* C30: whenever the syncInProgress flag of a device is set it is clear again
\* later, whether the cycle succeeds, fails, or fails again while it handles
\* its failure.
C30_GuardReleased ==
    \A d \in Devices : syncInProgress[d] ~> ~syncInProgress[d]

\* A cycle has ended in its catch with the logger throwing in its turn, and
\* the flag is clear.
C30_Witness ==
    \E d \in Devices :
        /\ lastCycle[d].result = "error"
        /\ lastCycle[d].rejected
        /\ ~syncInProgress[d]
        /\ frames[d] = <<>>

\* C31: a record that addTransaction wrote to the device's local list while
\* a cycle of the device was suspended is in the local list when that cycle
\* has written back.
C31_AddedMidCycleKept ==
    [][\A d \in Devices :
          (frames[d] # <<>> /\ PerformSyncResume(d)) =>
              (SeqIds(localStore[d][username[d]])
                  \ SeqIds(Head(frames[d]).localTransactions))
                      \subseteq SeqIds(localStore'[d][username[d]])]_vars

\* C32: a cycle of a device of user U leaves the cloud list of every other
\* user V as V's devices last wrote it, also when V's list was written
\* while the cycle was suspended.
C32_OtherUsersUntouched ==
    [][\A d \in Devices :
          (frames[d] # <<>> /\ PerformSyncResume(d)) =>
              \A v \in DOMAIN cloud.transactions \ {username[d]} :
                  /\ v \in DOMAIN cloud'.transactions
                  /\ cloud'.transactions[v] = cloud.transactions[v]]_vars

\* C33: while a device has no user, a trigger (timer, focus, visibility,
\* storage change, performSync) changes neither a local list nor the cloud
\* blob with its log, nor the status nor the flag; addTransaction,
\* deleteTransaction and forceSync throw and change no store; and a rejected
\* authenticateUser leaves username as it was.
C33_NoSyncWithoutUser ==
    [][\A d \in Devices :
          /\ (username[d] = Null /\ (\/ TimerTick(d) \/ FocusEvent(d)
                                     \/ VisibilityChange(d)
                                     \/ StorageChangeSync(d))) =>
                UNCHANGED <<localStore, cloud, status, syncInProgress, frames>>
          /\ (\E call \in Calls : UnauthenticatedCall(d, call)) =>
                /\ authError'.error = "not_authenticated"
                /\ UNCHANGED <<localStore, cloud, status, syncInProgress,
                               frames>>
          /\ (\E u \in LoginNames, passwordOk \in BOOLEAN :
                  AuthenticateUserRejected(d, u, passwordOk)) =>
                UNCHANGED <<username, localStore, cloud>>]_vars

\* A call before login was rejected on a device while the other device, logged
\* in, has a cycle in flight.
C33_Witness ==
    \E d \in Devices, e \in Devices :
        /\ authError = [device |-> d, error |-> "not_authenticated"]
        /\ username[d] = Null
        /\ e # d
        /\ syncInProgress[e]

\* C34: a merge of two lists that each hold no id twice holds no id twice,
\* and no local list and no cloud list ever holds two records of one id.
C34_UniqueIds ==
    /\ \A d \in Devices : \A n \in 1..Len(frames[d]) :
          (/\ UniqueIds(frames[d][n].localTransactions)
           /\ UniqueIds(frames[d][n].cloudTransactions)) =>
              UniqueIds(frames[d][n].syncedTransactions)
    /\ \A d \in Devices : \A u \in DOMAIN localStore[d] :
          UniqueIds(localStore[d][u])
    /\ \A u \in DOMAIN cloud.transactions : UniqueIds(cloud.transactions[u])

\* A cycle in flight has merged a local list and a cloud list that share an id
\* and differ in another.
C34_Witness ==
    \E d \in Devices :
        /\ frames[d] # <<>>
        /\ SeqIds(Head(frames[d]).localTransactions)
              \cap SeqIds(Head(frames[d]).cloudTransactions) # {}
        /\ SeqIds(Head(frames[d]).localTransactions)
              # SeqIds(Head(frames[d]).cloudTransactions)
        /\ Len(Head(frames[d]).syncedTransactions) = 2

\* C35: after new FinanceDatabase() on an empty storage, init has raised no
\* error, isConnected is true, and the stored snapshot holds the indexes
\* users_by_username, users_by_email and transactions_by_user.
C35_InitCompletes ==
    (lastCall.name = "init" /\ dbBefore = NoDatabase) =>
        /\ lastCall.error = "none"
        /\ isConnected
        /\ "indexes" \in DOMAIN db
        /\ {"users_by_username", "users_by_email", "transactions_by_user"}
              \subseteq DOMAIN db.indexes

====
